---- MODULE Spec2Model ----
(***************************************************************************)
(* MonthlyWrap front end: the two App components of the repository.        *)
(*                                                                         *)
(*   FrontendApp  src/frontend/src/App.js : the wrap loader.  A useEffect  *)
(*                keyed on [limit] calls fetchWrapData on mount and on     *)
(*                every change of limit.  It has no isLoggedIn state.      *)
(*   RouterApp    src/unnamed/part_000 : the session probe, the login      *)
(*                gate and the router.  It defines fetchWrapData but has   *)
(*                no effect keyed on limit, so nothing ever calls it.      *)
(*                                                                         *)
(* One behaviour follows one mounted component; Init chooses which.        *)
(* A fade cycle is one call of fetchWrapData; cycles[c] holds the position *)
(* of its callbacks, the state of its two requests, and bookkeeping the    *)
(* properties read (what the list was when it started, what it did).       *)
(***************************************************************************)
EXTENDS Integers, Sequences, FiniteSets, TLC

VARIABLES
    app,          \* which component is mounted
    route,        \* the router's location, RouterApp only
    callback,     \* CallbackHandler's code, request and navigations
    mounted,      \* the mount effects have run
    displayName,  \* useState('')
    tracks,       \* useState([])
    limit,        \* useState(5)
    error,        \* useState(null)
    isReloading,  \* useState(false)
    isLoggedIn,   \* useState(false), RouterApp only
    probe,        \* the session probe's request and response, RouterApp only
    cycles,       \* the calls of fetchWrapData so far, in call order
    timers,       \* pending setTimeout callbacks, in the order they were set
    drops         \* how many times isReloading went from true to false

vars == << app, route, callback, mounted, displayName, tracks, limit, error, isReloading,
           isLoggedIn, probe, cycles, timers, drops >>

----------------------------------------------------------------------------
(* Bounds of the model *)

\* fetchWrapData is called at most this many times in a behaviour
MaxCycles == 2

\* the user's listening history holds this many tracks; a response holds at
\* most that many
MaxTracks == 5

(* Program constants *)

FadeOutDelay == 300
FadeInDelay == 100
DefaultLimit == 5
NumOptions == 10

FrontendApp == "FrontendApp"
RouterApp == "RouterApp"

\* the values of the dropdown's options: i + 1 for i in 0..9
LimitOptions == 1..NumOptions

\* the options the user of the model picks: one below the default and the
\* last one
Picks == {3, NumOptions}

\* String(n): the decimal digits of n, most significant first
RECURSIVE Digits(_)
Digits(n) == IF n < 10 THEN << n >> ELSE Append(Digits(n \div 10), n % 10)

\* Number.parseInt: the not-a-number result
NaN == -1

\* the value of the longest prefix of ds that is made of digits of the radix,
\* continuing from acc
RECURSIVE ParseDigits(_, _, _)
ParseDigits(ds, radix, acc) ==
    IF ds = << >> \/ Head(ds) >= radix THEN acc
    ELSE ParseDigits(Tail(ds), radix, acc * radix + Head(ds))

\* parseInt(string, radix) of a string of decimal digits
ParseInt(ds, radix) ==
    IF ds = << >> \/ Head(ds) >= radix THEN NaN ELSE ParseDigits(ds, radix, 0)

\* the value attribute of the option for n: value={i + 1}
OptionValue(n) == Digits(n)

\* a handler that parses the option's value as hexadecimal
NewLimitHex(value) == ParseInt(value, 16)

\* const newLimit = parseInt(event.target.value, 10)
NewLimit(value) == ParseInt(value, 10)

Min(a, b) == IF a <= b THEN a ELSE b

----------------------------------------------------------------------------
(* Data received from the backend *)

\* display_name in the body of /user-info: missing (or null), empty, or a name
Absent == "<absent>"
DisplayNames == {Absent, "", "alice"}

\* userData.display_name || 'User': every falsy value gives 'User'
Falsy(v) == v = Absent \/ v = ""

\* the name taken as it came, with no default
NameAsReturned(v) == v

NameOrDefault(v) == IF Falsy(v) THEN "User" ELSE v

\* a track as the backend sends it
Track(i) == [name |-> i, artists |-> << i >>, album_image |-> i]

\* the bodies /top-tracks?limit=n may return: the first n tracks of the
\* history (all of it when it is shorter), or nothing when it is empty
TrackList(k) == [i \in 1..k |-> Track(i)]
TopTracksBodies(n) == {TrackList(0), TrackList(Min(n, MaxTracks))}

\* how a request fails: fetch rejects (network), response.ok is false (http),
\* or the status is 2xx and the body cannot be used (parse): response.json()
\* rejects, or the body is null and reading display_name throws
FailureKinds == {"network", "http", "parse"}

UserInfo == "user-info"
TopTracks == "top-tracks"

\* the Error object a failed request of cycle c rejects with
Failure(c, endpoint, kind) == [cycle |-> c, endpoint |-> endpoint, kind |-> kind]

\* error === null
NoError == [cycle |-> 0, endpoint |-> "none", kind |-> "none"]

\* The session probe's request: not yet issued, in flight, fulfilled with a
\* body whose display_name is name, or rejected (kind says how).
ProbeUnsent == [state |-> "unsent", kind |-> "none", name |-> Absent]
ProbePending == [state |-> "pending", kind |-> "none", name |-> Absent]
ProbeFulfilled(name) == [state |-> "fulfilled", kind |-> "none", name |-> name]
ProbeRejected(kind) == [state |-> "rejected", kind |-> kind, name |-> Absent]

\* urlParams.get('code') on /callback: no such parameter, an empty one, a code
Codes == {Absent, "", "abc"}

\* if (code): null and the empty string are falsy
HasCode(code) == code # Absent /\ code # ""

Home == "/"
CallbackPath == "/callback"

\* CallbackHandler: whether the route rendered it, the code of its URL, its
\* request to /callback, and how often it sent a request and called
\* navigate('/')
NewCallback(handler, code) ==
    [handler |-> handler, code |-> code, request |-> "unsent",
     sent |-> 0, navigations |-> 0]

----------------------------------------------------------------------------
(* Timers *)

\* a pending setTimeout callback of cycle c
Timer(c, delay) == [cycle |-> c, delay |-> delay]

\* The i-th pending timer may run now: every timer set before it with a delay
\* no longer than its own is due before it and has run already.  A timer set
\* earlier with a longer delay may or may not be due first.
CanFire(i) == \A j \in 1..(i - 1) : timers[j].delay > timers[i].delay

Remove(q, i) == SubSeq(q, 1, i - 1) \o SubSeq(q, i + 1, Len(q))

----------------------------------------------------------------------------
(* State after construction: the useState initial values *)

\* fetchWrapData with the requests issued at once, not from the timer
NewCycleEager(n) ==
    [ limit         |-> n,
      phase         |-> "fadingOut",
      user          |-> "pending",
      top           |-> "pending",
      sentLimit     |-> n,
      userData      |-> Absent,
      tracksData    |-> << >>,
      tracksAtStart |-> tracks,
      log           |-> << "setReloading" >> ]

NewCycle(n) ==
    [ limit         |-> n,          \* the argument of fetchWrapData
      phase         |-> "fadingOut",
      user          |-> "unsent",   \* the /user-info request
      top           |-> "unsent",   \* the /top-tracks request
      sentLimit     |-> 0,          \* the limit in the /top-tracks URL
      userData      |-> Absent,     \* display_name of the /user-info body
      tracksData    |-> << >>,      \* the /top-tracks body
      tracksAtStart |-> tracks,     \* the list shown when the cycle started
      log           |-> << "setReloading" >> ]

Init ==
    /\ app \in {FrontendApp, RouterApp}
    /\ \/ route = Home /\ callback = NewCallback(FALSE, Absent)
       \/ /\ app = RouterApp
          /\ route = CallbackPath
          /\ \E code \in Codes : callback = NewCallback(TRUE, code)
    /\ mounted = FALSE
    /\ displayName = ""
    /\ tracks = << >>
    /\ limit = DefaultLimit
    /\ error = NoError
    /\ isReloading = FALSE
    /\ isLoggedIn = FALSE
    /\ probe = ProbeUnsent
    /\ cycles = << >>
    /\ timers = << >>
    /\ drops = 0

\* setIsReloading(false), counting the change from true to false
ClearReloading ==
    /\ isReloading' = FALSE
    /\ drops' = IF isReloading THEN drops + 1 ELSE drops

----------------------------------------------------------------------------
(* fetchWrapData *)

\* a fetchWrapData that clears the previous error when it starts
FetchWrapDataResets(n) ==
    /\ Len(cycles) < MaxCycles
    /\ isReloading' = TRUE
    /\ error' = NoError
    /\ cycles' = Append(cycles, NewCycle(n))
    /\ timers' = Append(timers, Timer(Len(cycles) + 1, FadeOutDelay))
    /\ UNCHANGED << drops, displayName, tracks >>

\* The synchronous part of fetchWrapData(n): setIsReloading(true), and the
\* fade-out timer is set.
FetchWrapData(n) ==
    /\ Len(cycles) < MaxCycles
    /\ isReloading' = TRUE
    /\ cycles' = Append(cycles, NewCycle(n))
    /\ timers' = Append(timers, Timer(Len(cycles) + 1, FadeOutDelay))
    /\ UNCHANGED << drops, displayName, tracks, error >>

\* a callback that reads the limit state when it runs, not the argument
IssueRequestsCurrentLimit(cy) ==
    [cy EXCEPT !.phase = "fetching", !.user = "pending", !.top = "pending",
               !.sentLimit = limit,
               !.log = cy.log \o << "fadeOutElapsed", "requestsIssued" >>]

\* The fade-out timer's callback: both requests are issued.
IssueRequests(cy) ==
    [cy EXCEPT !.phase = "fetching", !.user = "pending", !.top = "pending",
               !.sentLimit = cy.limit,
               !.log = cy.log \o << "fadeOutElapsed", "requestsIssued" >>]

FadeOutElapsed(i) ==
    /\ i \in 1..Len(timers)
    /\ CanFire(i)
    /\ timers[i].delay = FadeOutDelay
    /\ LET c == timers[i].cycle IN
         /\ cycles[c].phase = "fadingOut"
         /\ cycles' = [cycles EXCEPT ![c] = IssueRequests(cycles[c])]
    /\ timers' = Remove(timers, i)
    /\ UNCHANGED << app, route, callback, mounted, displayName, tracks, limit, error,
                    isReloading, isLoggedIn, probe, drops >>

\* a join that fulfils as soon as one request has fulfilled
JoinFulfilledAny(cy) == cy.user = "ok" \/ cy.top = "ok"

\* Promise.all fulfils when both requests have fulfilled
JoinFulfilled(cy) == cy.user = "ok" /\ cy.top = "ok"

\* Promise.all is settled: its then or its catch has run
JoinSettled(cy) == cy.phase \in {"fadingIn", "done", "error"}

\* a then that sets the display name and never sets the fade-in timer
ThenHandlerNoFadeIn(c, cy) ==
    /\ displayName' = NameOrDefault(cy.userData)
    /\ cycles' = [cycles EXCEPT ![c] =
                    [cy EXCEPT !.phase = "fadingIn",
                               !.log = cy.log \o << "nameUpdated" >>]]
    /\ UNCHANGED << tracks, error, isReloading, drops, timers >>

\* .then(([userData, tracksData]) => ...): the display name is set and the
\* fade-in timer is set
ThenHandler(c, cy) ==
    /\ displayName' = NameOrDefault(cy.userData)
    /\ timers' = Append(timers, Timer(c, FadeInDelay))
    /\ cycles' = [cycles EXCEPT ![c] =
                    [cy EXCEPT !.phase = "fadingIn",
                               !.log = cy.log \o << "nameUpdated" >>]]
    /\ UNCHANGED << tracks, error, isReloading, drops >>

\* a catch that, after reporting the failure, sends both requests again
CatchHandlerRetry(c, cy, err) ==
    /\ error' = err
    /\ ClearReloading
    /\ cycles' = [cycles EXCEPT ![c] =
                    [cy EXCEPT !.user = "pending", !.top = "pending"]]
    /\ UNCHANGED << displayName, tracks, timers >>

\* .catch(err => ...): setError(err); setIsReloading(false)
CatchHandler(c, cy, err) ==
    /\ error' = err
    /\ ClearReloading
    /\ cycles' = [cycles EXCEPT ![c] =
                    [cy EXCEPT !.phase = "error",
                               !.log = cy.log \o << "errorSet", "reloadCleared" >>]]
    /\ UNCHANGED << displayName, tracks, timers >>

\* A request of cycle c has settled, leaving the cycle's record as cy.  When
\* Promise.all is already settled nothing more happens: the request's result
\* is dropped.
Settle(c, cy, failed, err) ==
    IF JoinSettled(cycles[c])
    THEN /\ cycles' = [cycles EXCEPT ![c] =
                         [cy EXCEPT !.userData = cycles[c].userData,
                                    !.tracksData = cycles[c].tracksData]]
         /\ UNCHANGED << displayName, tracks, error, isReloading, timers, drops >>
    ELSE IF failed THEN CatchHandler(c, cy, err)
    ELSE IF JoinFulfilled(cy) THEN ThenHandler(c, cy)
    ELSE /\ cycles' = [cycles EXCEPT ![c] = cy]
         /\ UNCHANGED << displayName, tracks, error, isReloading, timers, drops >>

UserInfoFulfils(c, name) ==
    /\ c \in 1..Len(cycles)
    /\ cycles[c].user = "pending"
    /\ name \in DisplayNames
    /\ Settle(c, [cycles[c] EXCEPT !.user = "ok", !.userData = name],
              FALSE, NoError)
    /\ UNCHANGED << app, route, callback, mounted, limit, isLoggedIn, probe >>

UserInfoRejects(c, kind) ==
    /\ c \in 1..Len(cycles)
    /\ cycles[c].user = "pending"
    /\ kind \in FailureKinds
    /\ Settle(c, [cycles[c] EXCEPT !.user = "failed"],
              TRUE, Failure(c, UserInfo, kind))
    /\ UNCHANGED << app, route, callback, mounted, limit, isLoggedIn, probe >>

TopTracksFulfils(c, body) ==
    /\ c \in 1..Len(cycles)
    /\ cycles[c].top = "pending"
    /\ body \in TopTracksBodies(cycles[c].sentLimit)
    /\ Settle(c, [cycles[c] EXCEPT !.top = "ok", !.tracksData = body],
              FALSE, NoError)
    /\ UNCHANGED << app, route, callback, mounted, limit, isLoggedIn, probe >>

TopTracksRejects(c, kind) ==
    /\ c \in 1..Len(cycles)
    /\ cycles[c].top = "pending"
    /\ kind \in FailureKinds
    /\ Settle(c, [cycles[c] EXCEPT !.top = "failed"],
              TRUE, Failure(c, TopTracks, kind))
    /\ UNCHANGED << app, route, callback, mounted, limit, isLoggedIn, probe >>

\* The fade-in timer's callback: setTracks(tracksData); setIsReloading(false)
FadeInElapsed(i) ==
    /\ i \in 1..Len(timers)
    /\ CanFire(i)
    /\ timers[i].delay = FadeInDelay
    /\ LET c == timers[i].cycle IN
         /\ cycles[c].phase = "fadingIn"
         /\ tracks' = cycles[c].tracksData
         /\ cycles' = [cycles EXCEPT ![c] =
                         [@ EXCEPT !.phase = "done",
                                   !.log = @ \o << "fadeInElapsed", "committed",
                                                   "reloadCleared" >>]]
    /\ ClearReloading
    /\ timers' = Remove(timers, i)
    /\ UNCHANGED << app, route, callback, mounted, displayName, limit, error, isLoggedIn, probe >>

----------------------------------------------------------------------------
(* Rendering *)

\* a view that shows the "no tracks" message whenever the list is empty
LoggedInViewEmptyOnly ==
    {"greeting", "dropdown", "grid"}
        \cup (IF error # NoError THEN {"errorText"} ELSE {})
        \cup (IF Len(tracks) = 0 THEN {"noTracks"} ELSE {})

\* What the component's JSX (in RouterApp: the element of the home route)
\* puts on the page.  FrontendApp has no login gate;
\* RouterApp shows the login call-to-action instead of everything else while
\* isLoggedIn is false.
LoggedInView ==
    {"greeting", "dropdown", "grid"}
        \cup (IF error # NoError THEN {"errorText"} ELSE {})
        \cup (IF Len(tracks) = 0 /\ ~isReloading THEN {"noTracks"} ELSE {})

\* a render with no login gate
RenderedUngated == LoggedInView

Rendered ==
    IF app = RouterApp /\ ~isLoggedIn THEN {"loginLink"} ELSE LoggedInView

\* What the router puts on the page: on /callback CallbackHandler's text
\* stands in place of the home route's element
Page == IF route = CallbackPath THEN {"loggingIn"} ELSE Rendered

\* the cards of the grid, one per track
Cards == IF "grid" \in Rendered THEN tracks ELSE << >>

----------------------------------------------------------------------------
(* Mount effects, the dropdown, the session probe *)

NoCycleStep == UNCHANGED << displayName, tracks, error, isReloading, cycles,
                            timers, drops >>

\* FrontendApp: useEffect(() => { fetchWrapData(limit) }, [limit]) runs after
\* a render in which limit differs from the previous render's.
\* RouterApp declares no effect on limit.
LimitEffect(n) ==
    IF app = FrontendApp /\ n # limit THEN FetchWrapData(n) ELSE NoCycleStep

\* navigate('/')
Navigate(cb) == [cb EXCEPT !.navigations = @ + 1]

\* CallbackHandler's effect, run once when it mounts: with a code the
\* request to /callback is sent, without one it navigates home at once.
CallbackEffect ==
    IF route # CallbackPath THEN UNCHANGED << route, callback >>
    ELSE IF HasCode(callback.code)
    THEN /\ callback' = [callback EXCEPT !.request = "pending", !.sent = @ + 1]
         /\ route' = route
    ELSE /\ callback' = Navigate(callback)
         /\ route' = Home

\* The effects' first run.  FrontendApp: fetchWrapData(limit).
\* RouterApp: CallbackHandler's effect when the route is /callback, and the
\* session probe's request is issued.
Mount ==
    /\ ~mounted
    /\ mounted' = TRUE
    /\ CallbackEffect
    /\ IF app = FrontendApp
       THEN FetchWrapData(limit) /\ UNCHANGED probe
       ELSE probe' = ProbePending /\ NoCycleStep
    /\ UNCHANGED << app, limit, isLoggedIn >>

AppUnchanged ==
    UNCHANGED << app, mounted, displayName, tracks, limit, error, isReloading,
                 isLoggedIn, probe, cycles, timers, drops >>

\* .then(response => response.json()).then(data => ...): the body parsed,
\* whatever the status; the handler navigates home
CallbackFulfils(ok) ==
    /\ callback.request = "pending"
    /\ ok \in BOOLEAN
    /\ callback' = Navigate([callback EXCEPT !.request = "fulfilled"])
    /\ route' = Home
    /\ AppUnchanged

\* a catch that logs the error and stays on /callback
CallbackRejectsStay(kind) ==
    /\ callback.request = "pending"
    /\ kind \in {"network", "parse"}
    /\ callback' = [callback EXCEPT !.request = "rejected"]
    /\ route' = route
    /\ AppUnchanged

\* .catch(error => ...): fetch rejected or the body did not parse; the
\* handler navigates home
CallbackRejects(kind) ==
    /\ callback.request = "pending"
    /\ kind \in {"network", "parse"}
    /\ callback' = Navigate([callback EXCEPT !.request = "rejected"])
    /\ route' = Home
    /\ AppUnchanged

\* onChange of the select: setLimit(parseInt(event.target.value, 10))
HandleLimitChange(n) ==
    /\ mounted
    /\ "dropdown" \in Page
    /\ n \in LimitOptions
    /\ LET newLimit == NewLimit(OptionValue(n)) IN
         /\ limit' = newLimit
         /\ LimitEffect(newLimit)
    /\ UNCHANGED << app, route, callback, mounted, isLoggedIn, probe >>

\* The probe's response is ok and its body parses: the name is set and the
\* user is marked logged in.
ProbeFulfils(name) ==
    /\ probe = ProbePending
    /\ name \in DisplayNames
    /\ probe' = ProbeFulfilled(name)
    /\ displayName' = NameOrDefault(name)
    /\ isLoggedIn' = TRUE
    /\ UNCHANGED << app, route, callback, mounted, tracks, limit, error, isReloading, cycles,
                    timers, drops >>

\* a catch that also reports the failure through error
ProbeRejectsLoud(kind) ==
    /\ probe = ProbePending
    /\ kind \in FailureKinds
    /\ probe' = ProbeRejected(kind)
    /\ isLoggedIn' = FALSE
    /\ error' = Failure(0, UserInfo, kind)
    /\ UNCHANGED << app, route, callback, mounted, displayName, tracks, limit,
                    isReloading, cycles, timers, drops >>

\* .catch(() => setIsLoggedIn(false)): the request failed, the response was
\* not ok, or its body did not parse
ProbeRejects(kind) ==
    /\ probe = ProbePending
    /\ kind \in FailureKinds
    /\ probe' = ProbeRejected(kind)
    /\ isLoggedIn' = FALSE
    /\ UNCHANGED << app, route, callback, mounted, displayName, tracks, limit, error,
                    isReloading, cycles, timers, drops >>

----------------------------------------------------------------------------

Next ==
    \/ Mount
    \/ \E n \in Picks : HandleLimitChange(n)
    \/ \E i \in 1..Len(timers) : FadeOutElapsed(i)
    \/ \E i \in 1..Len(timers) : FadeInElapsed(i)
    \/ \E c \in 1..Len(cycles), name \in DisplayNames : UserInfoFulfils(c, name)
    \/ \E c \in 1..Len(cycles), kind \in FailureKinds : UserInfoRejects(c, kind)
    \/ \E c \in 1..Len(cycles) :
         \E body \in TopTracksBodies(cycles[c].sentLimit) : TopTracksFulfils(c, body)
    \/ \E c \in 1..Len(cycles), kind \in FailureKinds : TopTracksRejects(c, kind)
    \/ \E name \in DisplayNames : ProbeFulfils(name)
    \/ \E kind \in FailureKinds : ProbeRejects(kind)
    \/ \E ok \in BOOLEAN : CallbackFulfils(ok)
    \/ \E kind \in {"network", "parse"} : CallbackRejects(kind)

Spec == Init /\ [][Next]_vars

\* a timer that is set fires
TimerFires == \E i \in 1..Len(timers) : FadeOutElapsed(i) \/ FadeInElapsed(i)

\* cycle c's request to /userinfo resolves or rejects
UserInfoSettles(c) ==
    \/ \E name \in DisplayNames : UserInfoFulfils(c, name)
    \/ \E kind \in FailureKinds : UserInfoRejects(c, kind)

\* cycle c's request to /top-tracks resolves or rejects
TopTracksSettles(c) ==
    \/ c \in 1..Len(cycles) /\
          \E body \in TopTracksBodies(cycles[c].sentLimit) : TopTracksFulfils(c, body)
    \/ \E kind \in FailureKinds : TopTracksRejects(c, kind)

\* The program under the scheduling the browser gives it: every timer that
\* is set fires and every request that is sent resolves or rejects.
FairSpec ==
    /\ Spec
    /\ WF_vars(TimerFires)
    /\ \A c \in 1..MaxCycles : WF_vars(UserInfoSettles(c))
    /\ \A c \in 1..MaxCycles : WF_vars(TopTracksSettles(c))

----------------------------------------------------------------------------
(* Vocabulary of the properties *)

CycleIds == 1..Len(cycles)

\* the cycle has ended: through the fade-in or through the error path
Completed(cy) == cy.phase \in {"done", "error"}

AllCompleted == \A c \in CycleIds : Completed(cycles[c])

\* the cycle's requests are out: it is past its fade-out delay
Issued(cy) == cy.phase # "fadingOut"

\* a cycle started after c has issued its requests
Superseded(c) == \E d \in CycleIds : d > c /\ Issued(cycles[d])

Has(log, e) == \E i \in 1..Len(log) : log[i] = e

Before(log, e, f) ==
    \A j \in 1..Len(log) : log[j] = f => \E i \in 1..(j - 1) : log[i] = e

IsPrefix(s, t) == Len(s) <= Len(t) /\ SubSeq(t, 1, Len(s)) = s

\* a fade-in timer of cycle c is pending
FadeInPending(c) ==
    \E i \in 1..Len(timers) : timers[i] = Timer(c, FadeInDelay)

\* this step is cycle c's catch handler
ErrorStep(c) ==
    /\ c \in CycleIds
    /\ cycles[c].phase = "fetching"
    /\ cycles'[c].phase = "error"

\* a request of cycle c failed in this step
FailedNow(c, endpoint) ==
    IF endpoint = UserInfo
    THEN cycles[c].user = "pending" /\ cycles'[c].user = "failed"
    ELSE cycles[c].top = "pending" /\ cycles'[c].top = "failed"

----------------------------------------------------------------------------
(* C1 *)

\* C1: when a request of a fade cycle fails, error becomes that failure,
\* isReloading becomes false in the same step with no fade-in timer set, and
\* the track list is the one that was shown when that cycle started.
C1_ErrorPathKeepsList ==
    [][\A c \in CycleIds : ErrorStep(c) =>
          /\ \E e \in {UserInfo, TopTracks} :
                /\ FailedNow(c, e)
                /\ error'.cycle = c
                /\ error'.endpoint = e
                /\ error'.kind \in FailureKinds
          /\ isReloading' = FALSE
          /\ ~FadeInPending(c)'
          /\ tracks' = cycles[c].tracksAtStart]_vars

----------------------------------------------------------------------------
(* C2 *)

\* C2: once every started cycle has completed, and the cycle of the most
\* recently selected limit committed, the list shown is the one returned to
\* that cycle.
C2_LastWriteWins ==
    (cycles # << >> /\ AllCompleted /\ cycles[Len(cycles)].phase = "done")
        => tracks = cycles[Len(cycles)].tracksData

----------------------------------------------------------------------------
(* C3 *)

\* C3: the failure of a request of a cycle that a newer cycle has superseded
\* leaves error as it was.
C3_StaleFailureKeepsError ==
    [][\A c \in CycleIds : (ErrorStep(c) /\ Superseded(c)) => error' = error]_vars

----------------------------------------------------------------------------
(* C4 *)

\* C4: isReloading has gone from true to false exactly once for each
\* completed cycle.
C4_OneDropPerCompletedCycle ==
    drops = Cardinality({c \in CycleIds : Completed(cycles[c])})

----------------------------------------------------------------------------
(* C5 *)

\* C5: the mount, and every change of limit through the dropdown, starts a
\* fade cycle: isReloading is true after that very step, the new cycle is
\* in its fade-out delay, its timer is pending and no request of it is out.
C5_MountAndLimitChangeStartCycle ==
    [][((~mounted /\ mounted') \/ limit' # limit) =>
          /\ Len(cycles') = Len(cycles) + 1
          /\ isReloading'
          /\ cycles'[Len(cycles')].phase = "fadingOut"
          /\ cycles'[Len(cycles')].limit = limit'
          /\ cycles'[Len(cycles')].user = "unsent"
          /\ cycles'[Len(cycles')].top = "unsent"
          /\ timers'[Len(timers')] = Timer(Len(cycles'), FadeOutDelay)]_vars

----------------------------------------------------------------------------
(* C6 *)

SuccessOrder == << "setReloading", "fadeOutElapsed", "requestsIssued",
                   "nameUpdated", "fadeInElapsed", "committed", "reloadCleared" >>

ErrorOrder == << "setReloading", "fadeOutElapsed", "requestsIssued",
                 "errorSet", "reloadCleared" >>

FadeOutPending(c) ==
    \E i \in 1..Len(timers) : timers[i] = Timer(c, FadeOutDelay)

PhaseSteps == { << "fadingOut", "fetching" >>, << "fetching", "fadingIn" >>,
                << "fetching", "error" >>, << "fadingIn", "done" >> }

\* C6: the steps of one cycle come in the order of the claim.  A cycle starts
\* by setting isReloading; its requests go out in the step that consumes its
\* fade-out timer, not before; the name is updated in the step in which the
\* second request succeeds, with the list untouched; the list is committed
\* and isReloading cleared together in the step that consumes its fade-in
\* timer, after the name was updated by that cycle.
C6_StepOrder ==
    [][\A c \in 1..Len(cycles') :
         LET new == cycles'[c] IN
         /\ IsPrefix(new.log, SuccessOrder) \/ IsPrefix(new.log, ErrorOrder)
         /\ new.phase = "fadingOut" =>
               new.user = "unsent" /\ new.top = "unsent" /\ FadeOutPending(c)'
         /\ c \notin CycleIds =>
               isReloading' /\ new.phase = "fadingOut"
         /\ c \in CycleIds =>
               LET old == cycles[c] IN
               /\ old.phase # new.phase => << old.phase, new.phase >> \in PhaseSteps
               /\ (old.user = "unsent" /\ new.user # "unsent") \/
                  (old.top = "unsent" /\ new.top # "unsent") =>
                     /\ FadeOutPending(c) /\ ~FadeOutPending(c)'
                     /\ new.user = "pending" /\ new.top = "pending"
               /\ (old.phase = "fetching" /\ new.phase = "fadingIn") =>
                     /\ new.user = "ok" /\ new.top = "ok"
                     /\ displayName' = (IF new.userData \in {Absent, ""}
                                        THEN "User" ELSE new.userData)
                     /\ tracks' = tracks /\ isReloading' = isReloading
                     /\ FadeInPending(c)'
               /\ (old.phase = "fadingIn" /\ new.phase = "done") =>
                     /\ FadeInPending(c) /\ ~FadeInPending(c)'
                     /\ Before(new.log, "nameUpdated", "committed")
                     /\ tracks' = new.tracksData
                     /\ isReloading' = FALSE]_vars

\* a cycle has gone through every step of the order
C6_Witness ==
    \E c \in CycleIds : cycles[c].log = SuccessOrder /\ tracks = cycles[c].tracksData
                        /\ Len(tracks) > 0

----------------------------------------------------------------------------
(* C7 *)

\* C7: a cycle is past its join (name updated, fade-in pending or list
\* committed) only with both of its requests fulfilled, and a cycle with a
\* failed request is on the error path at once, whatever the state of its
\* other request; displayName and tracks change only in a step of a cycle
\* whose two requests succeeded.
C7_Join ==
    [][/\ \A c \in 1..Len(cycles') :
            LET new == cycles'[c] IN
            /\ new.phase \in {"fadingIn", "done"} => new.user = "ok" /\ new.top = "ok"
            /\ Has(new.log, "nameUpdated") => new.user = "ok" /\ new.top = "ok"
            /\ (new.user = "failed" \/ new.top = "failed") => new.phase = "error"
       /\ (probe' = probe /\ (displayName' # displayName \/ tracks' # tracks)) =>
            \E c \in CycleIds :
               /\ cycles'[c].phase # cycles[c].phase
               /\ cycles'[c].user = "ok" /\ cycles'[c].top = "ok"]_vars

\* a cycle is on the error path while its other request is still in flight
C7_Witness ==
    \E c \in CycleIds :
        /\ cycles[c].phase = "error"
        /\ \/ cycles[c].user = "failed" /\ cycles[c].top = "pending"
           \/ cycles[c].top = "failed" /\ cycles[c].user = "pending"

----------------------------------------------------------------------------
(* C8 *)

\* the probe's response had a 2xx status: its body parsed, or did not
Probe2xx ==
    probe.state = "fulfilled" \/ (probe.state = "rejected" /\ probe.kind = "parse")

ProbeOneRequestOnMount ==
    app = RouterApp => (mounted <=> probe.state # "unsent")

\* C8 as stated: one request on mount; after a 2xx response displayName is
\* the returned display_name, or "User" when that is absent, and isLoggedIn
\* is true; after a non-2xx response or a network error isLoggedIn is false.
C8_ProbeAsStated ==
    /\ ProbeOneRequestOnMount
    /\ Probe2xx =>
          /\ isLoggedIn
          /\ displayName = (IF probe.name = Absent THEN "User" ELSE probe.name)
    /\ (probe.state = "rejected" /\ probe.kind \in {"http", "network"}) => ~isLoggedIn

\* C8 amended: one request on mount; after a 2xx response with a JSON object
\* body displayName is the returned display_name, or "User" when that is
\* absent or empty, and isLoggedIn is true; after a non-2xx response, a
\* network error or a 2xx body that is not JSON or is null, isLoggedIn is
\* false.
C8_Probe ==
    /\ ProbeOneRequestOnMount
    /\ probe.state = "fulfilled" =>
          /\ isLoggedIn
          /\ displayName = (IF probe.name \in {Absent, ""} THEN "User" ELSE probe.name)
    /\ probe.state = "rejected" => ~isLoggedIn
    /\ isLoggedIn => probe.state = "fulfilled"

\* the probe succeeded with an empty display_name
C8_Witness ==
    probe = ProbeFulfilled("") /\ isLoggedIn /\ displayName = "User"

----------------------------------------------------------------------------
(* C9 *)

\* C9: the step in which the probe fails leaves error, tracks, isReloading
\* and displayName as they were, and no error text is rendered after it.
C9_ProbeFailureSilent ==
    [][(probe.state = "pending" /\ probe'.state = "rejected") =>
          /\ UNCHANGED << error, tracks, isReloading, displayName >>
          /\ error' = NoError
          /\ "errorText" \notin Rendered']_vars

\* the probe has failed
C9_Witness == probe.state = "rejected" /\ ~isLoggedIn

----------------------------------------------------------------------------
(* C10 *)

\* The logged-out state: RouterApp with isLoggedIn false.  FrontendApp
\* declares no isLoggedIn.
LoggedOut == app = RouterApp /\ ~isLoggedIn

----------------------------------------------------------------------------
(* C11 *)

\* nothing is in flight: no timer, no cycle short of its end, no probe
Quiescent ==
    mounted /\ timers = << >> /\ AllCompleted /\ probe.state # "pending"

\* C11: once the page shows the grid and every load has ended without error,
\* the cards are the tracks returned to the cycle of the selected limit, one
\* card per track in the returned order, and no more than limit of them:
\* mounting with limit 5 and 5 tracks returned ends with 5 cards, changing
\* the limit to 3 ends with 3.
C11_CardsAreReturnedTracks ==
    (Quiescent /\ "grid" \in Rendered /\ error = NoError) =>
        /\ cycles # << >>
        /\ cycles[Len(cycles)].limit = limit
        /\ Cards = cycles[Len(cycles)].tracksData
        /\ Len(Cards) <= limit

----------------------------------------------------------------------------
(* C12 *)

\* the requests of cycle c go out in this step
IssuedNow(c) ==
    \/ cycles[c].user = "unsent" /\ cycles'[c].user # "unsent"
    \/ cycles[c].top = "unsent" /\ cycles'[c].top # "unsent"

\* C12: a settled request is never sent again and a cycle on the error path
\* stays there; a cycle starts only at the mount or at a change of limit;
\* and requests that go out after a cycle has failed belong to a cycle
\* started by a later selection of the limit.
C12_NoRetry ==
    [][/\ \A c \in CycleIds :
            /\ cycles[c].user \in {"ok", "failed"} => cycles'[c].user = cycles[c].user
            /\ cycles[c].top \in {"ok", "failed"} => cycles'[c].top = cycles[c].top
            /\ cycles[c].phase = "error" => cycles'[c].phase = "error"
            /\ IssuedNow(c) =>
                  \A f \in CycleIds : cycles[f].phase = "error" => f < c
       /\ Len(cycles') >= Len(cycles)
       /\ Len(cycles') > Len(cycles) =>
            (~mounted /\ mounted') \/ limit' # limit]_vars

\* a cycle has failed, nothing is in flight and nothing is scheduled
C12_Witness ==
    /\ Len(cycles) = 1 /\ cycles[1].phase = "error"
    /\ cycles[1].user # "pending" /\ cycles[1].top # "pending"
    /\ timers = << >> /\ error.cycle = 1

----------------------------------------------------------------------------
(* C13 *)

\* C13: where the logged-in view is shown, the "no tracks" message is on the
\* page exactly when the list is empty and isReloading is false; it is not
\* there while isReloading is true, nor while a card is shown.
C13_NoTracksMessage ==
    "grid" \in Rendered =>
        /\ "noTracks" \in Rendered <=> (tracks = << >> /\ isReloading = FALSE)
        /\ isReloading => "noTracks" \notin Rendered
        /\ Len(Cards) > 0 => "noTracks" \notin Rendered

\* the list is empty during a reload and the message is not shown
C13_Witness ==
    /\ "grid" \in Rendered /\ tracks = << >> /\ isReloading
    /\ "noTracks" \notin Rendered

----------------------------------------------------------------------------
(* C14 *)

\* C14: a cycle's limit is the value selected in the step that started it,
\* it never changes, and the limit sent to /top-tracks is that value
\* whatever the limit state is when the requests go out.
C14_SentLimitIsTriggerLimit ==
    [][\A c \in 1..Len(cycles') :
          /\ c \notin CycleIds => cycles'[c].limit = limit'
          /\ c \in CycleIds =>
                /\ cycles'[c].limit = cycles[c].limit
                /\ IssuedNow(c) => cycles'[c].sentLimit = cycles[c].limit
                /\ Issued(cycles[c]) => cycles'[c].sentLimit = cycles[c].sentLimit]_vars

\* a cycle's requests are out with its own limit after the limit state changed
C14_Witness ==
    \E c \in CycleIds :
        /\ cycles[c].top = "pending"
        /\ cycles[c].sentLimit = DefaultLimit
        /\ limit # DefaultLimit

----------------------------------------------------------------------------
(* C17 *)

\* C17: no step takes error from a failure back to null, and the error text
\* is on the page whenever error is set and the logged-in view is shown.
C17_ErrorNeverReset ==
    [][/\ error # NoError => error' # NoError
       /\ (error' # NoError /\ "grid" \in Rendered') => "errorText" \in Rendered']_vars

\* a cycle failed, a later one committed its tracks, the error text remains
C17_Witness ==
    \E c, d \in CycleIds :
        /\ c < d
        /\ cycles[c].phase = "error" /\ error.cycle = c
        /\ cycles[d].phase = "done" /\ tracks = cycles[d].tracksData
        /\ Len(tracks) > 0
        /\ "errorText" \in Rendered

----------------------------------------------------------------------------
(* C15 *)

\* C15: limit starts at 5 and is always one of 1..10; it changes only in a
\* step of the dropdown's handler: the component is mounted with the dropdown
\* on the page, and the step completes no request, runs no timer and writes
\* none of displayName, tracks, error, isLoggedIn.
C15_LimitInRange ==
    /\ limit = DefaultLimit
    /\ [][/\ limit' \in LimitOptions
          /\ limit' # limit =>
                /\ mounted /\ mounted'
                /\ "dropdown" \in Rendered
                /\ \A c \in CycleIds : cycles'[c] = cycles[c]
                /\ \A i \in 1..Len(timers) : timers'[i] = timers[i]
                /\ UNCHANGED << displayName, tracks, error, isLoggedIn, probe >>]_vars

\* limit is the last option after a cycle has committed its tracks
C15_Witness ==
    /\ limit = NumOptions
    /\ \E c \in CycleIds : cycles[c].phase = "done"

----------------------------------------------------------------------------
(* C16 *)

\* C16: CallbackHandler calls navigate('/') at most once and sends at most one
\* request.  Once mounted: with no code in the URL it has sent no request and
\* has navigated home; with a code it has sent one request, stays on
\* /callback while the request is in flight, and has navigated home once the
\* request has resolved, parsed or failed.
C16_CallbackNavigatesOnce ==
    /\ callback.navigations <= 1
    /\ callback.sent <= 1
    /\ ~callback.handler => callback.navigations = 0 /\ callback.sent = 0
    /\ (callback.handler /\ mounted) =>
          IF callback.code \in {Absent, ""}
          THEN callback.sent = 0 /\ callback.navigations = 1 /\ route = Home
          ELSE /\ callback.sent = 1
               /\ callback.request = "pending" =>
                     callback.navigations = 0 /\ route = CallbackPath
               /\ callback.request \in {"fulfilled", "rejected"} =>
                     callback.navigations = 1 /\ route = Home
               /\ callback.request # "unsent"

\* the request to /callback failed and the handler has navigated home
C16_Witness ==
    /\ callback.code = "abc" /\ callback.request = "rejected"
    /\ callback.navigations = 1 /\ route = Home

----------------------------------------------------------------------------
(* C19 *)

\* C19: when every timer fires and every request resolves or rejects, every
\* started fade cycle ends, through the fade-in or through the error path;
\* whenever no cycle is in flight isReloading is false; and isReloading never
\* stays true forever.
C19_CyclesTerminate ==
    /\ \A c \in 1..MaxCycles :
          [](c \in CycleIds => <>(c \in CycleIds /\ Completed(cycles[c])))
    /\ [](AllCompleted => ~isReloading)
    /\ (isReloading ~> ~isReloading)

\* two cycles have ended, one through the fade-in and one through the error
\* path, and the reloading state is over
C19_Witness ==
    /\ Len(cycles) = 2 /\ AllCompleted /\ ~isReloading
    /\ \E c, d \in CycleIds : cycles[c].phase = "done" /\ cycles[d].phase = "error"

====
